---- MODULE Spec2Model ----
(***************************************************************************)
(* Model of the generator core of gopter: GenParameters (gen_parameters.go) *)
(* and the Gen combinators (WithLabel, SuchThat, WithShrinker, Map,         *)
(* FlatMap, CombineGens).                                                   *)
(*                                                                          *)
(* GenResult objects live in a heap (a sequence, the index is the pointer), *)
(* so that "the same object" and "a fresh object" are different things.     *)
(* A generator is an expression tree; Run evaluates the closure the         *)
(* combinator returned, exactly as the Go closure does.                     *)
(***************************************************************************)
EXTENDS Integers, Sequences, FiniteSets, TLC

VARIABLES
    gen,        \* the generator that was invoked last (expression tree)
    params,     \* the *GenParameters it was invoked with
    heap,       \* GenResult objects allocated by that invocation
    ret,        \* pointer (heap index) the invocation returned, 0 before any
    rngPos,     \* number of Int63 draws taken from params.Rng
    log,        \* trace of generator calls, returns and continuation calls
    pheap,      \* GenParameters objects (the index is the pointer)
    published,  \* pointers callers hold: the base object, and WithSize's returns
    made,       \* for each returned pointer: the receiver and size of its call
    pc,         \* per concurrent generator: position inside WithSize
    recv,       \* per concurrent generator: receiver of the running call
    arg,        \* per concurrent generator: size argument of the running call
    newp,       \* per concurrent generator: pointer of newParameters
    drawOp,     \* last primitive draw operation (NextBool, NextInt64, NextUint64)
    drawOut     \* its result

genVars == <<gen, heap, ret, log>>
srcVars == <<params, rngPos>>
parVars == <<pheap, published, made, pc, recv, arg, newp>>
rngVars == <<drawOp, drawOut>>
vars == <<genVars, srcVars, parVars, rngVars>>

----------------------------------------------------------------------------
(* Bounds *)

\* length of the cyclic tape of Int63 results a random source is seeded with
TapeLen == 3
\* largest Int63 result on a generator's tape (0..MaxDraw)
MaxDraw == 1
\* largest number of sub-generators given to CombineGens
MaxGens == 2

\* number of bits of the modelled int64 (the program's is 64)
IntBits == 4
\* largest number of primitive draws taken from one random source
MaxDraws == 3
\* number of generators calling WithSize concurrently
NumProcs == 2
\* largest number of WithSize calls started, over all callers
MaxCalls == 3

(* Program constants *)
DefaultSize == 100
DefaultMaxShrinkCount == 1000

----------------------------------------------------------------------------
(* Values of GenResult fields *)

\* the nil interface value of GenResult.result; a present value x is <<x>>
Nil == <<>>
Some(x) == <<x>>

\* a nil func value in GenResult.Sieve
NilSieve == [k |-> "nil"]
\* the closure SuchThat builds around the user's predicate f
PredSieve(f) == [k |-> "pred", f |-> f]

\* Shrinkers are opaque here: only their identity matters to the combinators
\* (NoShrinker and CombineShrinker are defined in shrinker.go)
NilShrinker == [k |-> "nil"]
NoShrinker == [k |-> "NoShrinker"]
UserShrinker(id) == [k |-> "user", id |-> id]
CombineShrinker(shrinkers) == [k |-> "CombineShrinker", shrinkers |-> shrinkers]

\* user predicates handed to SuchThat
Preds == {"even", "pos"}
Pred(f, v) ==
    CASE f = "even" -> v % 2 = 0
      [] f = "pos"  -> v > 0

\* user transforms handed to Map, with their return types
Mappers == {"inc", "dbl"}
Mapper(f, v) ==
    CASE f = "inc" -> v + 1
      [] f = "dbl" -> 2 * v
MapperOut(f) == "int"

Values == 0 .. (2 * MaxDraw + 2)

----------------------------------------------------------------------------
(* Sieves *)

RECURSIVE SieveCall(_, _)

\* The closure CombineGens puts in Sieve, applied to the aggregate values
CombineSieveCallNilRejects(sieves, values) ==
    \A i \in 1 .. Len(values) :
        sieves[i].k # "nil" /\ SieveCall(sieves[i], values[i])

CombineSieveCall(sieves, values) ==
    \A i \in 1 .. Len(values) :
        ~(sieves[i].k # "nil" /\ ~SieveCall(sieves[i], values[i]))

\* Calling a non-nil sieve s on value v
SieveCall(s, v) ==
    CASE s.k = "pred"    -> Pred(s.f, v)
      [] s.k = "and"     -> SieveCall(s.prev, v) /\ SieveCall(s.sieve, v)
      [] s.k = "combine" -> CombineSieveCall(s.sieves, v)

\* What SuchThat stores in result.Sieve, given the previous sieve
SuchThatSieveReplace(prevSieve, f) == PredSieve(f)

SuchThatSieve(prevSieve, f) ==
    IF prevSieve.k = "nil"
    THEN PredSieve(f)
    ELSE [k |-> "and", prev |-> prevSieve, sieve |-> PredSieve(f)]

----------------------------------------------------------------------------
(* GenResult *)

\* GenResult.Retrieve: the value, and whether there is one. It is defined in
\* gen_result.go; this follows its documented contract: a result yields its
\* value iff the value is present and the sieve, if there is one, accepts it.
Retrieve(r) ==
    IF r.result # Nil /\ (r.Sieve.k = "nil" \/ SieveCall(r.Sieve, r.result[1]))
    THEN [value |-> r.result, ok |-> TRUE]
    ELSE [value |-> Nil, ok |-> FALSE]

\* GenResult.RetrieveAsValue: the same decision, the value as a reflect.Value
RetrieveAsValue(r) == Retrieve(r)

----------------------------------------------------------------------------
(* Evaluation state of one invocation: heap, random source position, trace *)

St0 == [heap |-> <<>>, pos |-> 0, log |-> <<>>, d |-> 1]

\* &GenResult{...}: a fresh object
Alloc(st, obj) ==
    [st |-> [st EXCEPT !.heap = Append(@, obj)], ref |-> Len(st.heap) + 1]

\* p.Rng.Int63() on the shared source
Int63(P, st) ==
    [v |-> P.Rng[(st.pos % Len(P.Rng)) + 1], st |-> [st EXCEPT !.pos = @ + 1]]

\* Arithmetic of the modelled machine integers
Pow2(n) == 2 ^ n
Int63Max == Pow2(IntBits - 1) - 1
MinInt64 == 0 - Pow2(IntBits - 1)
MaxInt64 == Pow2(IntBits - 1) - 1
\* two's complement wrap of x into the signed range
WrapInt64(x) == ((x + Pow2(IntBits - 1)) % Pow2(IntBits)) - Pow2(IntBits - 1)
\* wrap of x into the unsigned range
WrapUint64(x) == x % Pow2(IntBits)

RECURSIVE Xor(_, _)
Xor(a, b) ==
    IF a = 0 THEN b
    ELSE IF b = 0 THEN a
    ELSE (((a % 2) + (b % 2)) % 2) + 2 * Xor(a \div 2, b \div 2)

\* GenParameters.NextBool
NextBool(P, st) ==
    LET d == Int63(P, st)
    IN  [v |-> (d.v % 2 = 0), st |-> d.st]

\* GenParameters.NextInt64
NextInt64(P, st) ==
    LET d == Int63(P, st)
        b == NextBool(P, d.st)
    IN  [v |-> IF b.v THEN WrapInt64(0 - d.v) ELSE d.v, st |-> b.st]

\* GenParameters.NextUint64
NextUint64(P, st) ==
    LET first == Int63(P, st)
        second == Int63(P, first.st)
    IN  [v |-> Xor(WrapUint64(first.v * 2), second.v), st |-> second.st]

\* GenParameters.WithSize, statement by statement, on the parameters heap ph:
\* newParameters := *p
WithSizeCopy(ph, p) == Append(ph, ph[p])
\* newParameters.Size = size   (n is &newParameters)
WithSizeAssignToReceiver(ph, p, n, size) == [ph EXCEPT ![p].Size = size]

WithSizeAssign(ph, p, n, size) == [ph EXCEPT ![n].Size = size]

----------------------------------------------------------------------------
(* Generators *)

\* A leaf generator (a user of the API): draws ndraws times, fresh result
Leaf(name, ndraws, base, absent, labels, sieve, shrinker) ==
    [k |-> "Leaf", name |-> name, ndraws |-> ndraws, base |-> base,
     absent |-> absent, labels |-> labels, sieve |-> sieve,
     shrinker |-> shrinker]

GDraw  == Leaf("draw", 1, 0, FALSE, <<"a">>, NilSieve, UserShrinker("s1"))
GFail  == Leaf("fail", 1, 0, TRUE, <<"b">>, NilSieve, NoShrinker)
GEven  == Leaf("even", 2, 0, FALSE, <<"c">>, PredSieve("even"), UserShrinker("s2"))
GConst(x) == Leaf("const", 0, x, FALSE, <<>>, NilSieve, NilShrinker)

WithLabel(g, label) == [k |-> "WithLabel", g |-> g, label |-> label]
SuchThat(g, f) == [k |-> "SuchThat", g |-> g, f |-> f]
WithShrinker(g, shrinker) == [k |-> "WithShrinker", g |-> g, shrinker |-> shrinker]
Map(g, f) == [k |-> "Map", g |-> g, f |-> f]
FlatMap(g, f, resultType) ==
    [k |-> "FlatMap", g |-> g, f |-> f, resultType |-> resultType]
CombineGens(gens) == [k |-> "CombineGens", gens |-> gens]

\* continuations handed to FlatMap: value -> generator
Conts == {"const", "dep"}
Cont(f, x) ==
    CASE f = "const" -> WithLabel(GConst(x), "k")
      [] f = "dep"   -> IF x = 0 THEN GFail ELSE SuchThat(GDraw, "pos")

RECURSIVE Run(_, _, _)

\* gen(genParams): the call, traced on entry and on return
Call(g, P, st) ==
    LET entry == [ev |-> "call", d |-> st.d, gen |-> g, P |-> P.id, pos |-> st.pos]
        r == Run(g, P, [st EXCEPT !.log = Append(@, entry), !.d = @ + 1])
        exit == [ev |-> "ret", d |-> st.d, ref |-> r.ref,
                 snap |-> r.st.heap[r.ref], pos |-> r.st.pos]
    IN  [st |-> [r.st EXCEPT !.log = Append(@, exit), !.d = st.d], ref |-> r.ref]

RECURSIVE LeafDraws(_, _, _, _)
LeafDraws(n, P, st, sum) ==
    IF n = 0 THEN [st |-> st, sum |-> sum]
    ELSE LET dr == Int63(P, st) IN LeafDraws(n - 1, P, dr.st, sum + dr.v)

RunLeaf(g, P, st) ==
    LET dr == LeafDraws(g.ndraws, P, st, g.base)
    IN  Alloc(dr.st, [result |-> IF g.absent THEN Nil ELSE Some(dr.sum),
                      Labels |-> g.labels, Sieve |-> g.sieve,
                      Shrinker |-> g.shrinker, ResultType |-> "int"])

\* Gen.WithLabel's closure
RunWithLabel(g, label, P, st) ==
    LET r == Call(g, P, st)
    IN  [st |-> [r.st EXCEPT !.heap[r.ref].Labels = Append(@, label)],
         ref |-> r.ref]

\* Gen.SuchThat's closure
RunSuchThat(g, f, P, st) ==
    LET r == Call(g, P, st)
        prevSieve == r.st.heap[r.ref].Sieve
    IN  [st |-> [r.st EXCEPT !.heap[r.ref].Sieve = SuchThatSieve(prevSieve, f)],
         ref |-> r.ref]

\* Gen.WithShrinker's closure
RunWithShrinker(g, shrinker, P, st) ==
    LET r == Call(g, P, st)
    IN  [st |-> [r.st EXCEPT !.heap[r.ref].Shrinker =
                    IF shrinker.k = "nil" THEN NoShrinker ELSE shrinker],
         ref |-> r.ref]

\* Gen.Map's closure
RunMapKeepShrinker(g, f, P, st) ==
    LET r == Call(g, P, st)
        result == r.st.heap[r.ref]
        rv == RetrieveAsValue(result)
    IN  Alloc(r.st, [Shrinker |-> result.Shrinker,
                     result |-> IF rv.ok THEN Some(Mapper(f, rv.value[1])) ELSE Nil,
                     Labels |-> result.Labels, Sieve |-> result.Sieve,
                     ResultType |-> MapperOut(f)])

RunMap(g, f, P, st) ==
    LET r == Call(g, P, st)
        result == r.st.heap[r.ref]
        rv == RetrieveAsValue(result)
    IN  IF rv.ok
        THEN Alloc(r.st, [Shrinker |-> NoShrinker,
                          result |-> Some(Mapper(f, rv.value[1])),
                          Labels |-> result.Labels, Sieve |-> NilSieve,
                          ResultType |-> MapperOut(f)])
        ELSE Alloc(r.st, [Shrinker |-> NoShrinker, result |-> Nil,
                          Labels |-> result.Labels, Sieve |-> NilSieve,
                          ResultType |-> MapperOut(f)])

\* Gen.FlatMap's closure
RunFlatMapKeepLabels(g, f, resultType, P, st) ==
    LET r == Call(g, P, st)
        result == r.st.heap[r.ref]
        rv == Retrieve(result)
        called == [ev |-> "cont", d |-> st.d, f |-> f, x |-> rv.value]
        r2 == Call(Cont(f, rv.value[1]), P, [r.st EXCEPT !.log = Append(@, called)])
    IN  IF rv.ok
        THEN [st |-> [r2.st EXCEPT !.heap[r2.ref].Labels = result.Labels \o @],
              ref |-> r2.ref]
        ELSE Alloc(r.st, [Shrinker |-> NoShrinker, result |-> Nil,
                          Labels |-> result.Labels, Sieve |-> NilSieve,
                          ResultType |-> resultType])

RunFlatMap(g, f, resultType, P, st) ==
    LET r == Call(g, P, st)
        result == r.st.heap[r.ref]
        rv == Retrieve(result)
        called == [ev |-> "cont", d |-> st.d, f |-> f, x |-> rv.value]
    IN  IF rv.ok
        THEN Call(Cont(f, rv.value[1]), P, [r.st EXCEPT !.log = Append(@, called)])
        ELSE Alloc(r.st, [Shrinker |-> NoShrinker, result |-> Nil,
                          Labels |-> result.Labels, Sieve |-> NilSieve,
                          ResultType |-> resultType])

\* CombineGens: the locals before the loop
CombineAcc0 == [labels |-> <<>>, values |-> <<>>, shrinkers |-> <<>>, sieves |-> <<>>]

\* CombineGens: one iteration's bookkeeping
CombineAccPrepend(acc, result, rv) ==
    [labels    |-> acc.labels \o result.Labels,
     shrinkers |-> Append(acc.shrinkers, result.Shrinker),
     sieves    |-> Append(acc.sieves, result.Sieve),
     values    |-> <<rv.value>> \o acc.values]

CombineAcc(acc, result, rv) ==
    [labels    |-> acc.labels \o result.Labels,
     shrinkers |-> Append(acc.shrinkers, result.Shrinker),
     sieves    |-> Append(acc.sieves, result.Sieve),
     values    |-> Append(acc.values, rv.value)]

\* CombineGens: the result returned from inside the loop when !ok
CombineFailResult(acc, result) ==
    [Shrinker |-> NoShrinker, result |-> Nil, Labels |-> result.Labels,
     Sieve |-> NilSieve, ResultType |-> "[]interface {}"]

\* CombineGens: the result returned after the loop
CombineOkResult(acc) ==
    [Shrinker |-> CombineShrinker(acc.shrinkers),
     result |-> Some([i \in 1 .. Len(acc.values) |->
                        IF acc.values[i] = Nil THEN Nil ELSE acc.values[i][1]]),
     Labels |-> acc.labels,
     ResultType |-> "[]interface {}",
     Sieve |-> [k |-> "combine", sieves |-> acc.sieves]]

RECURSIVE CombineLoop(_, _, _, _, _)

\* CombineGens: the loop from index i on
CombineLoopNoReturn(gens, i, P, st, acc) ==
    IF i > Len(gens)
    THEN Alloc(st, CombineOkResult(acc))
    ELSE LET r == Call(gens[i], P, st)
             result == r.st.heap[r.ref]
             rv == Retrieve(result)
         IN  CombineLoop(gens, i + 1, P, r.st, CombineAcc(acc, result, rv))

CombineLoop(gens, i, P, st, acc) ==
    IF i > Len(gens)
    THEN Alloc(st, CombineOkResult(acc))
    ELSE LET r == Call(gens[i], P, st)
             result == r.st.heap[r.ref]
             rv == Retrieve(result)
             acc2 == CombineAcc(acc, result, rv)
         IN  IF ~rv.ok
             THEN Alloc(r.st, CombineFailResult(acc2, result))
             ELSE CombineLoop(gens, i + 1, P, r.st, acc2)

\* CombineGens's closure
RunCombineGens(gens, P, st) == CombineLoop(gens, 1, P, st, CombineAcc0)

\* g(genParams) for any generator g
Run(g, P, st) ==
    CASE g.k = "Leaf"         -> RunLeaf(g, P, st)
      [] g.k = "WithLabel"    -> RunWithLabel(g.g, g.label, P, st)
      [] g.k = "SuchThat"     -> RunSuchThat(g.g, g.f, P, st)
      [] g.k = "WithShrinker" -> RunWithShrinker(g.g, g.shrinker, P, st)
      [] g.k = "Map"          -> RunMap(g.g, g.f, P, st)
      [] g.k = "FlatMap"      -> RunFlatMap(g.g, g.f, g.resultType, P, st)
      [] g.k = "CombineGens"  -> RunCombineGens(g.gens, P, st)

----------------------------------------------------------------------------
(* Invocations of generators: one action per combinator *)

Tapes == [1 .. TapeLen -> 0 .. MaxDraw]

\* the *GenParameters a runner hands to a generator
GenParams ==
    {[id |-> 1, Size |-> DefaultSize, MaxShrinkCount |-> DefaultMaxShrinkCount,
      Rng |-> t] : t \in Tapes}

Leaves == {GDraw, GFail, GEven, GConst(1)}
Labels == {"x", "y"}
Shrinkers == {NilShrinker, UserShrinker("s3")}
ResultTypes == {"int", "string"}

\* generators of int values, one combinator deep
Gens1 ==
    Leaves
    \cup {WithLabel(g, "x") : g \in Leaves}
    \cup {SuchThat(g, f) : g \in Leaves, f \in Preds}
    \cup {WithShrinker(g, UserShrinker("s3")) : g \in Leaves}
    \cup {Map(g, "inc") : g \in Leaves}

\* the generators given to CombineGens
SubGens ==
    {GDraw, GFail, GEven, SuchThat(GDraw, "pos"), WithLabel(GConst(1), "x"),
     FlatMap(GDraw, "dep", "int")}

\* g(P) from the runner: the closure's body runs on a fresh evaluation state
Invoke(g, P) ==
    LET r == Run(g, P, St0)
    IN  /\ gen' = g
        /\ params' = P
        /\ heap' = r.st.heap
        /\ ret' = r.ref
        /\ rngPos' = r.st.pos
        /\ log' = r.st.log
        /\ UNCHANGED <<parVars, rngVars>>

InvokeWithLabel ==
    /\ gen.k = "none"
    /\ \E g \in Gens1, label \in Labels, P \in GenParams :
           Invoke(WithLabel(g, label), P)

InvokeSuchThat ==
    /\ gen.k = "none"
    /\ \E g \in Gens1, f \in Preds, P \in GenParams :
           Invoke(SuchThat(g, f), P)

InvokeWithShrinker ==
    /\ gen.k = "none"
    /\ \E g \in Gens1, shrinker \in Shrinkers, P \in GenParams :
           Invoke(WithShrinker(g, shrinker), P)

InvokeMap ==
    /\ gen.k = "none"
    /\ \E g \in Gens1, f \in Mappers, P \in GenParams :
           Invoke(Map(g, f), P)

InvokeFlatMap ==
    /\ gen.k = "none"
    /\ \E g \in Gens1, f \in Conts, resultType \in ResultTypes, P \in GenParams :
           Invoke(FlatMap(g, f, resultType), P)

InvokeCombineGens ==
    /\ gen.k = "none"
    /\ \E n \in 0 .. MaxGens :
           \E gens \in [1 .. n -> SubGens], P \in GenParams :
               Invoke(CombineGens(gens), P)

\* the runner drops the result and the parameters of the last invocation
Discard ==
    /\ gen.k # "none"
    /\ gen' = [k |-> "none"]
    /\ params' = [id |-> 1, Size |-> DefaultSize,
                  MaxShrinkCount |-> DefaultMaxShrinkCount,
                  Rng |-> [i \in 1 .. TapeLen |-> 0]]
    /\ heap' = <<>>
    /\ ret' = 0
    /\ rngPos' = 0
    /\ log' = <<>>
    /\ UNCHANGED <<parVars, rngVars>>

Init ==
    /\ gen = [k |-> "none"]
    /\ params = [id |-> 1, Size |-> DefaultSize,
                 MaxShrinkCount |-> DefaultMaxShrinkCount,
                 Rng |-> [i \in 1 .. TapeLen |-> 0]]
    /\ heap = <<>>
    /\ ret = 0
    /\ rngPos = 0
    /\ log = <<>>
    /\ pheap = <<>>
    /\ published = {}
    /\ made = <<>>
    /\ pc = <<>>
    /\ recv = <<>>
    /\ arg = <<>>
    /\ newp = <<>>
    /\ drawOp = "none"
    /\ drawOut = 0

----------------------------------------------------------------------------
(* GenParameters: WithSize called by concurrent generators *)

Procs == 1 .. NumProcs
SizeArgs == {0, 7}

\* DefaultGenParameters(); its Rng is the pointer of the one shared source
DefaultGenParameters ==
    [Size |-> DefaultSize, MaxShrinkCount |-> DefaultMaxShrinkCount, Rng |-> 1]

InitParams ==
    /\ gen = [k |-> "none"]
    /\ params = [id |-> 1, Size |-> DefaultSize,
                 MaxShrinkCount |-> DefaultMaxShrinkCount,
                 Rng |-> [i \in 1 .. TapeLen |-> 0]]
    /\ heap = <<>>
    /\ ret = 0
    /\ rngPos = 0
    /\ log = <<>>
    /\ pheap = <<DefaultGenParameters>>
    /\ published = {1}
    /\ made = <<[recv |-> 0, size |-> DefaultSize]>>
    /\ pc = [p \in Procs |-> "idle"]
    /\ recv = [p \in Procs |-> 0]
    /\ arg = [p \in Procs |-> 0]
    /\ newp = [p \in Procs |-> 0]
    /\ drawOp = "none"
    /\ drawOut = 0

\* line 18: newParameters := *p
WithSizeBegin(self) ==
    /\ pc[self] = "idle"
    /\ Len(pheap) <= MaxCalls
    /\ \E p \in published, size \in SizeArgs :
        /\ pheap' = WithSizeCopy(pheap, p)
        /\ made' = Append(made, [recv |-> p, size |-> size])
        /\ recv' = [recv EXCEPT ![self] = p]
        /\ arg' = [arg EXCEPT ![self] = size]
        /\ newp' = [newp EXCEPT ![self] = Len(pheap) + 1]
    /\ pc' = [pc EXCEPT ![self] = "copied"]
    /\ UNCHANGED <<published, genVars, srcVars, rngVars>>

\* line 19: newParameters.Size = size
WithSizeSetSize(self) ==
    /\ pc[self] = "copied"
    /\ pheap' = WithSizeAssign(pheap, recv[self], newp[self], arg[self])
    /\ pc' = [pc EXCEPT ![self] = "assigned"]
    /\ UNCHANGED <<published, made, recv, arg, newp, genVars, srcVars, rngVars>>

\* line 20: return &newParameters
WithSizeReturn(self) ==
    /\ pc[self] = "assigned"
    /\ published' = published \cup {newp[self]}
    /\ pc' = [pc EXCEPT ![self] = "idle"]
    /\ UNCHANGED <<pheap, made, recv, arg, newp, genVars, srcVars, rngVars>>

NextParams ==
    \E self \in Procs :
        \/ WithSizeBegin(self)
        \/ WithSizeSetSize(self)
        \/ WithSizeReturn(self)

SpecParams == InitParams /\ [][NextParams]_vars

----------------------------------------------------------------------------
(* GenParameters: the primitive draws *)

\* random sources: every cyclic tape of Int63 results
RngParams ==
    {[id |-> 1, Size |-> DefaultSize, MaxShrinkCount |-> DefaultMaxShrinkCount,
      Rng |-> t] : t \in [1 .. TapeLen -> 0 .. Int63Max]}

InitRng ==
    /\ gen = [k |-> "none"]
    /\ params \in RngParams
    /\ heap = <<>>
    /\ ret = 0
    /\ rngPos = 0
    /\ log = <<>>
    /\ pheap = <<>>
    /\ published = {}
    /\ made = <<>>
    /\ pc = <<>>
    /\ recv = <<>>
    /\ arg = <<>>
    /\ newp = <<>>
    /\ drawOp = "none"
    /\ drawOut = 0

DrawNextBool ==
    LET r == NextBool(params, [pos |-> rngPos])
    IN  /\ rngPos < MaxDraws
        /\ rngPos' = r.st.pos
        /\ drawOp' = "NextBool"
        /\ drawOut' = r.v
        /\ UNCHANGED <<params, genVars, parVars>>

DrawNextInt64 ==
    LET r == NextInt64(params, [pos |-> rngPos])
    IN  /\ rngPos < MaxDraws
        /\ rngPos' = r.st.pos
        /\ drawOp' = "NextInt64"
        /\ drawOut' = r.v
        /\ UNCHANGED <<params, genVars, parVars>>

DrawNextUint64 ==
    LET r == NextUint64(params, [pos |-> rngPos])
    IN  /\ rngPos < MaxDraws
        /\ rngPos' = r.st.pos
        /\ drawOp' = "NextUint64"
        /\ drawOut' = r.v
        /\ UNCHANGED <<params, genVars, parVars>>

NextRng ==
    \/ DrawNextBool
    \/ DrawNextInt64
    \/ DrawNextUint64

SpecRng == InitRng /\ [][NextRng]_vars

----------------------------------------------------------------------------
NextGen ==
    \/ InvokeWithLabel
    \/ InvokeSuchThat
    \/ InvokeWithShrinker
    \/ InvokeMap
    \/ InvokeFlatMap
    \/ InvokeCombineGens
    \/ Discard

Spec == Init /\ [][NextGen]_vars

----------------------------------------------------------------------------
(* Reading the trace of the last invocation *)

TopCalls == SelectSeq(log, LAMBDA e : e.ev = "call" /\ e.d = 1)
TopRets == SelectSeq(log, LAMBDA e : e.ev = "ret" /\ e.d = 1)
TopConts == SelectSeq(log, LAMBDA e : e.ev = "cont" /\ e.d = 1)

\* the labels of results rs[1..n], concatenated in order
RECURSIVE ConcatLabels(_, _)
ConcatLabels(rs, n) ==
    IF n = 0 THEN <<>> ELSE ConcatLabels(rs, n - 1) \o rs[n].snap.Labels

\* whether the sieve slot s (nil or a closure) lets v through
Accepts(s, v) == s.k = "nil" \/ SieveCall(s, v)

\* the sub-generators of the last CombineGens invocation, each run on its own
\* from the source position the previous one left: what each one yields
RECURSIVE InOrder(_, _, _, _)
InOrder(gens, i, P, pos) ==
    IF i > Len(gens) THEN <<>>
    ELSE LET r == Run(gens[i], P, [St0 EXCEPT !.pos = pos])
             y == Retrieve(r.st.heap[r.ref])
         IN  <<[ok |-> y.ok, value |-> y.value, from |-> pos]>>
             \o InOrder(gens, i + 1, P, r.st.pos)

----------------------------------------------------------------------------
(* Claims about the combinators, under Spec *)

\* C1: when a sub-generator of CombineGens yields no value, the result has an
\* absent value and its labels are the labels of all the sub-generators
\* invoked so far, in invocation order, the failing one's last.
C1_FailureKeepsAllLabels ==
    (gen.k = "CombineGens" /\ TopRets # <<>>
        /\ ~Retrieve(TopRets[Len(TopRets)].snap).ok)
    => /\ heap[ret].result = Nil
       /\ heap[ret].Labels = ConcatLabels(TopRets, Len(TopRets))

\* C2: a generator built by WithLabel, SuchThat or WithShrinker leaves the
\* object its base returned as the base returned it, and returns another,
\* fresh object.
C2_BaseResultNotModified ==
    gen.k \in {"WithLabel", "SuchThat", "WithShrinker"}
    => /\ heap[TopRets[1].ref] = TopRets[1].snap
       /\ ret # TopRets[1].ref

\* C4: the sieve of the result of a SuchThat generator accepts v iff the base
\* result's sieve (if there is one) accepts v and the predicate accepts v; for
\* stacked SuchThat calls, iff the innermost base's sieve and every predicate do.
SuchThatDepth(g) ==
    IF g.k # "SuchThat" THEN 0
    ELSE IF g.g.k # "SuchThat" THEN 1
    ELSE IF g.g.g.k # "SuchThat" THEN 2 ELSE 3
SuchThatPreds(g) ==
    IF g.k # "SuchThat" THEN {}
    ELSE IF g.g.k # "SuchThat" THEN {g.f}
    ELSE IF g.g.g.k # "SuchThat" THEN {g.f, g.g.f} ELSE {g.f, g.g.f, g.g.g.f}
InnermostRet ==
    SelectSeq(log, LAMBDA e : e.ev = "ret" /\ e.d = SuchThatDepth(gen))[1]

C4_SieveConjunction ==
    gen.k = "SuchThat"
    => /\ heap[ret].Sieve.k # "nil"
       /\ \A v \in Values :
            /\ SieveCall(heap[ret].Sieve, v)
                <=> (Accepts(TopRets[1].snap.Sieve, v) /\ Pred(gen.f, v))
            /\ SieveCall(heap[ret].Sieve, v)
                <=> (/\ Accepts(InnermostRet.snap.Sieve, v)
                     /\ \A f \in SuchThatPreds(gen) : Pred(f, v))

C4_Witness ==
    /\ gen.k = "SuchThat"
    /\ gen.g.k = "SuchThat"
    /\ gen.g.f # gen.f
    /\ InnermostRet.snap.Sieve.k # "nil"
    /\ \E v \in Values : SieveCall(heap[ret].Sieve, v)
    /\ \E v \in Values : Pred(gen.f, v) /\ ~SieveCall(heap[ret].Sieve, v)

\* C5: when a sub-generator of CombineGens yields no value, the combined
\* result has an absent value and nothing runs after the failing one: it is
\* the last generator invoked and the random source stays where it left it.
C5_ShortCircuit ==
    gen.k = "CombineGens"
    => \A i \in 1 .. Len(TopRets) :
        ~Retrieve(TopRets[i].snap).ok
        => /\ heap[ret].result = Nil
           /\ i = Len(TopRets)
           /\ Len(TopCalls) = i
           /\ log[Len(log)] = TopRets[i]
           /\ rngPos = TopRets[i].pos
           /\ \A j \in 1 .. i : TopCalls[j].gen = gen.gens[j]

C5_Witness ==
    /\ gen.k = "CombineGens"
    /\ Len(gen.gens) = 2
    /\ Len(TopRets) = 1
    /\ TopRets[1].snap.result # Nil
    /\ ~Retrieve(TopRets[1].snap).ok
    /\ gen.gens[2].k = "Leaf"
    /\ heap[ret].result = Nil

\* C6: when every sub-generator yields a value, CombineGens invokes them in
\* list order, each once and with the parameters it was given, and its value
\* is the sequence of their values, each drawn from where the previous one
\* left the random source.
C6_OrderedValues ==
    (gen.k = "CombineGens"
        /\ \A i \in 1 .. Len(gen.gens) :
            InOrder(gen.gens, 1, params, 0)[i].ok)
    => LET n == Len(gen.gens)
           each == InOrder(gen.gens, 1, params, 0)
       IN  /\ Len(TopCalls) = n
           /\ \A i \in 1 .. n :
                /\ TopCalls[i].gen = gen.gens[i]
                /\ TopCalls[i].P = params.id
                /\ TopCalls[i].pos = each[i].from
           /\ heap[ret].result # Nil
           /\ Len(heap[ret].result[1]) = n
           /\ \A i \in 1 .. n : heap[ret].result[1][i] = each[i].value[1]

C6_Witness ==
    /\ gen.k = "CombineGens"
    /\ Len(gen.gens) = 2
    /\ gen.gens[1].k = "Leaf"
    /\ gen.gens[1].ndraws = 2
    /\ gen.gens[2].k = "Leaf"
    /\ heap[ret].result # Nil
    /\ heap[ret].result[1][1] # heap[ret].result[1][2]
    /\ TopCalls[2].pos = 2

\* C7: the result of a Map generator has the value f(x) exactly when the base
\* result holds a value x that the base result's sieve accepts, and no value
\* otherwise; either way it has no sieve, the no-op shrinker and the base
\* result's labels.
C7_Map ==
    gen.k = "Map"
    => LET b == TopRets[1].snap
       IN  /\ TopCalls = <<[ev |-> "call", d |-> 1, gen |-> gen.g,
                           P |-> params.id, pos |-> 0]>>
           /\ ret # TopRets[1].ref
           /\ heap[ret].result =
                IF b.result # Nil /\ Accepts(b.Sieve, b.result[1])
                THEN Some(Mapper(gen.f, b.result[1]))
                ELSE Nil
           /\ heap[ret].Sieve = NilSieve
           /\ heap[ret].Shrinker = NoShrinker
           /\ heap[ret].Labels = b.Labels

C7_Witness ==
    /\ gen.k = "Map"
    /\ TopRets[1].snap.Sieve.k # "nil"
    /\ TopRets[1].snap.Shrinker.k = "user"
    /\ TopRets[1].snap.Labels # <<>>
    /\ heap[ret].result # Nil
    /\ heap[ret].result # TopRets[1].snap.result

C7_WitnessRejected ==
    /\ gen.k = "Map"
    /\ TopRets[1].snap.result # Nil
    /\ heap[ret].result = Nil

C10_FlatMap ==
    gen.k = "FlatMap"
    => LET b == TopRets[1].snap
           y == Retrieve(b)
       IN  /\ TopCalls[1] = [ev |-> "call", d |-> 1, gen |-> gen.g,
                             P |-> params.id, pos |-> 0]
           /\ y.ok =>
                /\ TopConts = <<[ev |-> "cont", d |-> 1, f |-> gen.f,
                                x |-> b.result]>>
                /\ Len(TopCalls) = 2 /\ Len(TopRets) = 2
                /\ TopCalls[2] = [ev |-> "call", d |-> 1,
                                  gen |-> Cont(gen.f, b.result[1]),
                                  P |-> params.id, pos |-> TopRets[1].pos]
                /\ ret = TopRets[2].ref
                /\ heap[ret] = TopRets[2].snap
                /\ LET own == Run(Cont(gen.f, b.result[1]), params,
                                  [St0 EXCEPT !.pos = TopRets[1].pos])
                   IN  heap[ret] = own.st.heap[own.ref]
           /\ ~y.ok =>
                /\ TopConts = <<>>
                /\ Len(TopCalls) = 1
                /\ ret # TopRets[1].ref
                /\ heap[ret].result = Nil
                /\ heap[ret].ResultType = gen.resultType
                /\ heap[ret].Labels = b.Labels

C10_Witness ==
    /\ gen.k = "FlatMap"
    /\ TopConts # <<>>
    /\ TopRets[1].snap.Labels # <<>>
    /\ heap[ret].Labels # TopRets[1].snap.Labels
    /\ heap[ret].Sieve # TopRets[1].snap.Sieve
    /\ heap[ret].result # Nil

C10_WitnessFailed ==
    /\ gen.k = "FlatMap"
    /\ TopConts = <<>>
    /\ gen.resultType = "string"
    /\ TopRets[1].snap.Labels # <<>>

----------------------------------------------------------------------------
(* Claims about GenParameters *)

\* C8 (under SpecParams): WithSize never changes its receiver. Whatever the
\* interleaving, the base object keeps its Size and MaxShrinkCount, every
\* object WithSize returned equals its receiver except for Size, which is the
\* size it was created with, and the object a call builds is a new one.
C8_WithSizeCopies ==
    /\ pheap[1] = DefaultGenParameters
    /\ \A o \in published \ {1} :
        /\ pheap[o].Size = made[o].size
        /\ pheap[o] = [pheap[made[o].recv] EXCEPT !.Size = made[o].size]
    /\ \A self \in Procs :
        pc[self] # "idle"
        => /\ newp[self] \notin published
           /\ \A other \in Procs \ {self} :
                pc[other] # "idle" => newp[other] # newp[self]

C8_Witness ==
    \E o \in published \ {1} :
        /\ pc[1] = "assigned" /\ pc[2] = "copied"
        /\ recv[1] = o /\ recv[2] = o
        /\ arg[1] # arg[2]
        /\ arg[1] # pheap[o].Size
        /\ pheap[o].Size # pheap[1].Size

\* C3 (under SpecRng): NextInt64 can return every value of the signed range,
\* the minimum and the maximum included: each value is the result of some
\* magnitude draw followed by some sign draw.
C3_NextInt64FullRange ==
    drawOp = "NextInt64"
    => \A x \in MinInt64 .. MaxInt64 :
        \E t \in [1 .. TapeLen -> 0 .. Int63Max] :
            NextInt64([params EXCEPT !.Rng = t], [pos |-> 0]).v = x

\* what holds instead: NextInt64 returns every value but the minimum
C3_AllButMinimum ==
    drawOp = "NextInt64"
    => /\ drawOut \in (MinInt64 + 1) .. MaxInt64
       /\ \A x \in (MinInt64 + 1) .. MaxInt64 :
            \E t \in [1 .. TapeLen -> 0 .. Int63Max] :
                NextInt64([params EXCEPT !.Rng = t], [pos |-> 0]).v = x

====
